---- MODULE Spec2Model ----
(***************************************************************************)
(* RootBot of samples/python/80.skills-simple-bot-to-bot/simple-root-bot   *)
(* (bots/root_bot.py): the root bot that routes the turns of a             *)
(* conversation either to its own handlers or to the active skill.         *)
(*                                                                         *)
(* One turn (one inbound activity) of a conversation is a sequence of      *)
(* steps, one per awaited call of the code.  The awaited collaborators     *)
(* (state accessor, conversation state, reply sink, skill client) are not  *)
(* part of the file; each step records its call in the turn's log, and any *)
(* of them may raise, which ends the turn (nothing in root_bot.py catches).*)
(* The host serializes the turns it delivers to one conversation; the      *)
(* turns of different conversations interleave at the awaited calls.       *)
(* While a turn is suspended in post_activity the skill it called may send *)
(* activities back through the skill host endpoint: on_turn then runs for  *)
(* each, in the same conversation, before the suspended turn goes on.      *)
(*                                                                         *)
(* An Optional[str] is a sequence of length 0 (None) or 1 (<<s>>).         *)
(***************************************************************************)
EXTENDS Integers, Sequences, FiniteSets, TLC

\* ------------------------------------------------------------------ bounds

MaxMembers == 2

\* How many turns of one conversation may wait in post_activity, one inside
\* the other, while on_turn runs for an activity of the skill.
MaxDepth == 1

Conversations == {"c1", "c2"}

\* ------------------------------------------------------------- constants

TARGET_SKILL_ID_Other == "DialogSkillBot"
TARGET_SKILL_ID == "EchoSkillBot"
ACTIVE_SKILL_PROPERTY_NAME == "activeSkillProperty"

None == <<>>
Some(s) == <<s>>

\* The KeyError a dict raises for a key that is not in it.
KeyError(key) == Some("KeyError: " \o key)

\* Python's str.format of an Optional[str] inside an f-string.
Str(o) == IF o = None THEN "None" ELSE o[1]

\* Python truthiness of an Optional[str]: None and "" are falsy.
Truthy(o) == o # None /\ o[1] # ""

\* Python's `sub in s` on two strings.
Contains(sub, s) ==
    \E k \in 1..(Len(s) - Len(sub) + 1) : SubSeq(s, k, k + Len(sub) - 1) = sub

\* ActivityTypes of botbuilder.schema used by the bot.
ActivityTypes ==
    [message |-> "message",
     conversation_update |-> "conversationUpdate",
     end_of_conversation |-> "endOfConversation",
     event |-> "event"]

\* config.APP_ID, SkillConfiguration.SKILL_HOST_ENDPOINT and
\* SkillConfiguration.SKILLS (config.py): one descriptor per known skill.
APP_ID == "root-bot-app-id"
SKILL_HOST_ENDPOINT == "http://localhost:3978/api/skills"
SKILLS ==
    [id \in {TARGET_SKILL_ID} |->
        [id |-> id,
         app_id |-> "echo-skill-app-id",
         skill_endpoint |-> "http://localhost:39783/api/messages"]]

\* ---------------------------------------------------------------- inputs

BotId == "bot"
MemberIds == {"bot", "u1"}
RecipientIds == {"bot", "u1"}

MessageTexts ==
    {None, Some(""), Some("hi"), Some("skill"),
     Some("let's try the skill"), Some("SKILL")}

EocCodes == {None, Some("success")}
EocTexts == {None, Some(""), Some("done")}
EocValues == {None, Some(""), Some("42")}

RECURSIVE SeqsUpTo(_, _)
SeqsUpTo(S, n) ==
    IF n = 0 THEN {<<>>}
    ELSE LET shorter == SeqsUpTo(S, n - 1)
         IN  shorter \cup {Append(s, x) : s \in shorter, x \in S}

Activity(type, text, code, value, members, recipient) ==
    [type |-> type, text |-> text, code |-> code, value |-> value,
     members_added |-> members, recipient |-> recipient]

MessageActivities ==
    {Activity(ActivityTypes.message, t, None, None, <<>>, BotId) :
        t \in MessageTexts}

MembersAddedActivities ==
    {Activity(ActivityTypes.conversation_update, None, None, None, m, r) :
        m \in SeqsUpTo(MemberIds, MaxMembers), r \in RecipientIds}

EocActivities ==
    {Activity(ActivityTypes.end_of_conversation, t, k, v, <<>>, BotId) :
        t \in EocTexts, k \in EocCodes, v \in EocValues}

OtherActivities ==
    {Activity(ActivityTypes.event, None, None, None, <<>>, BotId)}

Activities ==
    MessageActivities \cup MembersAddedActivities \cup EocActivities
        \cup OtherActivities

NoActivity == Activity("", None, None, None, <<>>, "")

\* The activities the host delivers to a conversation: any of Activities to
\* the first one, and the two that begin and end a skill session to the
\* conversations whose turns run in between.
BackgroundActivities ==
    {Activity(ActivityTypes.message, Some("let's try the skill"), None, None,
              <<>>, BotId),
     Activity(ActivityTypes.end_of_conversation, Some("done"),
              Some("success"), Some(""), <<>>, BotId)}

Inbound(c) == IF c = "c1" THEN Activities ELSE BackgroundActivities

\* The activities a skill sends back to the root bot, through the skill host
\* endpoint, while the root bot waits for the answer of post_activity: one
\* of each kind, the EndOfConversation that ends the skill's part of the
\* conversation among them.
SkillActivities ==
    {Activity(ActivityTypes.end_of_conversation, Some("done"),
              Some("success"), None, <<>>, BotId),
     Activity(ActivityTypes.message, Some("hi"), None, None, <<>>, BotId),
     Activity(ActivityTypes.event, None, None, None, <<>>, BotId)}

\* ----------------------------------------------------------------- state

VARIABLES
    store,      \* persisted conversation state: the activeSkillProperty
    cache,      \* the turn's cached conversation state (loaded, value)
    pc,         \* where the turn of the conversation stands
    activity,   \* the inbound activity of the turn
    target,     \* target_skill of the running __send_to_skill
    idx,        \* position of the loop of on_members_added_activity
    summary,    \* eoc_activity_message
    log,        \* the awaited calls the turn has made, in order
    err,        \* the exception that ended the turn, if any
    pre,        \* history: the persisted property when the turn began
    eocPrev,    \* history: the previous turn was a completed EndOfConversation
    response,   \* status of the response post_activity returned, 0 before
    postBadPrev, \* history: the transport call of the previous turn raised
                \* or returned an error response
    suspended,  \* the turns that wait in post_activity while on_turn runs
                \* for an activity of the skill, the innermost first
    cleared,    \* history: when the turn went on after on_turn had run for
                \* activities of the skill, the persisted property was no
                \* longer the one the turn had saved
    build       \* how the Python build formats a member of a str-mixin Enum

vars == <<store, cache, pc, activity, target, idx, summary, log, err, pre,
          eocPrev, response, postBadPrev, suspended, cleared, build>>

NotLoaded == [loaded |-> FALSE, value |-> None]
Loaded(v) == [loaded |-> TRUE, value |-> v]

NoTarget == [id |-> "", app_id |-> "", skill_endpoint |-> ""]

\* format() of a member of an Enum that is also a str, as an f-string does
\* it: the member's value up to Python 3.10, "Class.member" from 3.11 on.
EnumFormats == {"value", "name"}

Init ==
    /\ store = [c \in Conversations |-> None]
    /\ cache = [c \in Conversations |-> NotLoaded]
    /\ pc = [c \in Conversations |-> "idle"]
    /\ activity = [c \in Conversations |-> NoActivity]
    /\ target = [c \in Conversations |-> NoTarget]
    /\ idx = [c \in Conversations |-> 0]
    /\ summary = [c \in Conversations |-> ""]
    /\ log = [c \in Conversations |-> <<>>]
    /\ err = [c \in Conversations |-> None]
    /\ pre = [c \in Conversations |-> None]
    /\ eocPrev = [c \in Conversations |-> FALSE]
    /\ response = [c \in Conversations |-> 0]
    /\ postBadPrev = [c \in Conversations |-> FALSE]
    /\ suspended = [c \in Conversations |-> <<>>]
    /\ cleared = [c \in Conversations |-> FALSE]
    /\ build \in EnumFormats

\* --------------------------------------------------- the awaited calls

\* BotState.load(turn_context, force=False): the first state access of a
\* turn reads the persisted state into the turn's cache.
LoadShared(c) == IF cache[c].loaded THEN cache[c] ELSE Loaded(store["c1"])
Load(c) == IF cache[c].loaded THEN cache[c] ELSE Loaded(store[c])

\* One entry of the turn's log per awaited call; ok is FALSE when it raised.
GetCall == [op |-> "get", ok |-> TRUE]
SetCall(v) == [op |-> "set", value |-> v, ok |-> TRUE]
DeleteCall == [op |-> "delete", ok |-> TRUE]
SaveCall(v) == [op |-> "save_changes", force |-> TRUE, value |-> v, ok |-> TRUE]
SendCall(text) == [op |-> "send_activity", text |-> text, ok |-> TRUE]
PostCall(bot_id, skill, endpoint, a) ==
    [op |-> "post_activity", from_bot_id |-> bot_id, to_skill |-> skill,
     callback_url |-> endpoint, activity |-> a, ok |-> TRUE]

ACK_TEXT == "Got it, connecting you to the skill..."
HELP_TEXT == "Me no nothin'. Say \"skill\" and I'll patch you through"
BACK_TEXT == "Back in the root bot. Say \"skill\" and I'll patch you through"
WELCOME_TEXT == "Hello and welcome!"

\* on_turn: the activities the active skill gets, by their type.
ForwardedTypeOnlyMessages(a) == a.type = ActivityTypes.message
ForwardedTypeAll(a) == TRUE
ForwardedType(a) == a.type # ActivityTypes.end_of_conversation

\* The condition of on_message_activity, for a text that is a str.
KeywordMatchAny(text) == TRUE
KeywordMatchWhole(text) == text = "skill"
KeywordMatch(text) == Contains("skill", text)

\* f"{ActivityTypes.<member>}", ActivityTypes being an Enum that is a str.
FormatEnum(member) ==
    IF build = "value" THEN ActivityTypes[member]
    ELSE "ActivityTypes." \o member

EocMessagePresent(a) ==
    LET m0 == "Received " \o FormatEnum("end_of_conversation")
                  \o ".\n\nCode: " \o Str(a.code)
        m1 == IF a.text # None THEN m0 \o "\n\nText: " \o Str(a.text) ELSE m0
        m2 == IF a.value # None THEN m1 \o "\n\nValue: " \o Str(a.value) ELSE m1
    IN  m2

\* eoc_activity_message of on_end_of_conversation_activity.  The activity
\* type is formatted as the build formats an Enum member; the code is
\* formatted whether or not it is there, the text and the value only when
\* they are truthy.
EocMessage(a) ==
    LET m0 == "Received " \o FormatEnum("end_of_conversation")
                  \o ".\n\nCode: " \o Str(a.code)
        m1 == IF Truthy(a.text) THEN m0 \o "\n\nText: " \o Str(a.text) ELSE m0
        m2 == IF Truthy(a.value) THEN m1 \o "\n\nValue: " \o Str(a.value) ELSE m1
    IN  m2

\* The test of the loop of on_members_added_activity.
NotSelfBot(member, a) == member # BotId
NotSelf(member, a) == member # a.recipient

\* self._active_skill_property.delete(turn_context) loads the state and
\* removes the property from it (del cached_state.state[name] in BotState):
\* of a property that is not there the removal raises KeyError.
DeleteRaises(c) == Load(c).value = None

\* The cached state after the delete of a property that is there.
Deleted(c) == Loaded(None)

\* The value save_changes(force=True) writes: the turn's cached state.
Saved(c) == IF cache[c].loaded THEN cache[c].value ELSE store[c]

\* The awaited call the turn of c makes next, where it is about to make one.
Awaits(c) ==
    CASE pc[c] = "on_turn" -> ForwardedType(activity[c])
      [] pc[c] = "on_message_activity" -> activity[c].text # None
      [] pc[c] = "on_members_added_activity" ->
            NotSelf(activity[c].members_added[idx[c]], activity[c])
      [] pc[c] \in {"msg_set", "send_save", "send_post",
                    "on_end_of_conversation_activity", "eoc_summary",
                    "eoc_back", "eoc_save"} -> TRUE
      [] OTHER -> FALSE

Call(c) ==
    CASE pc[c] = "on_turn" -> GetCall
      [] pc[c] = "on_message_activity" ->
            SendCall(IF KeywordMatch(activity[c].text[1])
                     THEN ACK_TEXT ELSE HELP_TEXT)
      [] pc[c] = "msg_set" -> SetCall(Some(TARGET_SKILL_ID))
      [] pc[c] = "send_save" -> SaveCall(Saved(c))
      [] pc[c] = "send_post" ->
            PostCall(APP_ID, target[c], SKILL_HOST_ENDPOINT, activity[c])
      [] pc[c] = "on_end_of_conversation_activity" -> DeleteCall
      [] pc[c] = "eoc_summary" -> SendCall(summary[c])
      [] pc[c] = "eoc_back" -> SendCall(BACK_TEXT)
      [] pc[c] = "eoc_save" -> SaveCall(Saved(c))
      [] pc[c] = "on_members_added_activity" -> SendCall(WELCOME_TEXT)

Called(c) == [log EXCEPT ![c] = Append(@, Call(c))]

\* ---------------------------------------------------------------- actions

\* The statuses of the response of post_activity: success, or an error.
Statuses == {200, 500}

\* History: the turn called the transport, the call raised or returned an
\* error response, and the property the turn had saved was still the
\* persisted one when the turn went on.
PostWentBad(c) ==
    /\ \/ response[c] = 500
       \/ \E k \in 1..Len(log[c]) :
              log[c][k].op = "post_activity" /\ ~log[c][k].ok
    /\ ~cleared[c]

\* The host delivers the activities of a conversation one turn at a time:
\* the turn before has ended, completed or failed.
Serialized(c) ==
    /\ pc[c] \in {"idle", "done", "failed"}
    /\ suspended[c] = <<>>

\* on_turn is called with the next inbound activity of conversation c, on a
\* new turn context.
BeginTurn(c, a) ==
    /\ Serialized(c)
    /\ UNCHANGED <<suspended, build>>
    /\ cleared' = [cleared EXCEPT ![c] = FALSE]
    /\ pc' = [pc EXCEPT ![c] = "on_turn"]
    /\ activity' = [activity EXCEPT ![c] = a]
    /\ cache' = [cache EXCEPT ![c] = NotLoaded]
    /\ target' = [target EXCEPT ![c] = NoTarget]
    /\ idx' = [idx EXCEPT ![c] = 0]
    /\ summary' = [summary EXCEPT ![c] = ""]
    /\ log' = [log EXCEPT ![c] = <<>>]
    /\ err' = [err EXCEPT ![c] = None]
    /\ pre' = [pre EXCEPT ![c] = store[c]]
    /\ eocPrev' = [eocPrev EXCEPT ![c] =
            pc[c] = "done"
            /\ activity[c].type = ActivityTypes.end_of_conversation]
    /\ response' = [response EXCEPT ![c] = 0]
    /\ postBadPrev' = [postBadPrev EXCEPT ![c] = PostWentBad(c)]
    /\ store' = store

\* The skill sends its activities in answer to a message, and to the first
\* conversation.
SkillInbound(c) ==
    IF c = "c1" /\ activity[c].type = ActivityTypes.message
    THEN SkillActivities ELSE {}

\* While the turn of c waits in post_activity, the skill sends activity a
\* to the skill host endpoint and on_turn is called with it, on a turn
\* context of its own, for the same conversation: the state the waiting
\* turn saved before the call is what this one loads.
BeginSkillTurn(c, a) ==
    /\ pc[c] = "send_post"
    /\ Len(suspended[c]) < MaxDepth
    /\ suspended' = [suspended EXCEPT ![c] =
            <<[activity |-> activity[c], cache |-> cache[c],
               target |-> target[c], log |-> log[c], pre |-> pre[c],
               eocPrev |-> eocPrev[c], postBadPrev |-> postBadPrev[c]]>>
                \o @]
    /\ cleared' = [cleared EXCEPT ![c] = FALSE]
    /\ pc' = [pc EXCEPT ![c] = "on_turn"]
    /\ activity' = [activity EXCEPT ![c] = a]
    /\ cache' = [cache EXCEPT ![c] = NotLoaded]
    /\ target' = [target EXCEPT ![c] = NoTarget]
    /\ log' = [log EXCEPT ![c] = <<>>]
    /\ pre' = [pre EXCEPT ![c] = store[c]]
    /\ eocPrev' = [eocPrev EXCEPT ![c] = FALSE]
    /\ postBadPrev' = [postBadPrev EXCEPT ![c] = FALSE]
    /\ UNCHANGED <<store, idx, summary, err, response, build>>

\* on_turn has returned, or raised, for the activity of the skill: the turn
\* that waits in post_activity goes on with its own turn context, and may
\* see more activities of the skill before the call returns.
ResumeTurn(c) ==
    /\ pc[c] \in {"done", "failed"}
    /\ suspended[c] # <<>>
    /\ LET waiting == Head(suspended[c])
       IN  /\ suspended' = [suspended EXCEPT ![c] = Tail(@)]
           /\ cleared' = [cleared EXCEPT ![c] = store[c] # waiting.cache.value]
           /\ pc' = [pc EXCEPT ![c] = "send_post"]
           /\ activity' = [activity EXCEPT ![c] = waiting.activity]
           /\ cache' = [cache EXCEPT ![c] = waiting.cache]
           /\ target' = [target EXCEPT ![c] = waiting.target]
           /\ log' = [log EXCEPT ![c] = waiting.log]
           /\ pre' = [pre EXCEPT ![c] = waiting.pre]
           /\ eocPrev' = [eocPrev EXCEPT ![c] = waiting.eocPrev]
           /\ postBadPrev' = [postBadPrev EXCEPT ![c] = waiting.postBadPrev]
    /\ idx' = [idx EXCEPT ![c] = 0]
    /\ summary' = [summary EXCEPT ![c] = ""]
    /\ err' = [err EXCEPT ![c] = None]
    /\ response' = [response EXCEPT ![c] = 0]
    /\ UNCHANGED <<store, build>>

\* RootBot.on_turn up to its first call into a handler.
OnTurn(c) ==
    /\ pc[c] = "on_turn"
    /\ IF ForwardedType(activity[c])
       THEN LET active_skill_id == Load(c).value
            IN  /\ cache' = [cache EXCEPT ![c] = Load(c)]
                /\ log' = Called(c)
                /\ IF Truthy(active_skill_id)
                   THEN IF active_skill_id[1] \in DOMAIN SKILLS
                        THEN /\ pc' = [pc EXCEPT ![c] = "send_save"]
                             /\ target' = [target EXCEPT ![c] =
                                               SKILLS[active_skill_id[1]]]
                             /\ err' = err
                        ELSE /\ pc' = [pc EXCEPT ![c] = "failed"]
                             /\ err' = [err EXCEPT ![c] =
                                            KeyError(active_skill_id[1])]
                             /\ target' = target
                   ELSE /\ pc' = [pc EXCEPT ![c] = "dispatch"]
                        /\ UNCHANGED <<target, err>>
       ELSE /\ pc' = [pc EXCEPT ![c] = "dispatch"]
            /\ UNCHANGED <<cache, log, target, err>>
    /\ UNCHANGED <<store, activity, idx, summary, pre, eocPrev, response, postBadPrev,
                   suspended, cleared, build>>

\* super().on_turn: ActivityHandler dispatches on the activity's type.
Dispatch(c) ==
    /\ pc[c] = "dispatch"
    /\ LET a == activity[c]
       IN  CASE a.type = ActivityTypes.message ->
                    /\ pc' = [pc EXCEPT ![c] = "on_message_activity"]
                    /\ idx' = idx
             [] a.type = ActivityTypes.end_of_conversation ->
                    /\ pc' = [pc EXCEPT ![c] = "on_end_of_conversation_activity"]
                    /\ idx' = idx
             [] a.type = ActivityTypes.conversation_update
                    /\ a.members_added # <<>> ->
                    /\ pc' = [pc EXCEPT ![c] = "on_members_added_activity"]
                    /\ idx' = [idx EXCEPT ![c] = 1]
             [] OTHER ->
                    /\ pc' = [pc EXCEPT ![c] = "done"]
                    /\ idx' = idx
    /\ UNCHANGED <<store, cache, activity, target, summary, log, err, pre,
                   eocPrev, response, postBadPrev,
                   suspended, cleared, build>>

\* RootBot.on_message_activity up to its first awaited call: the keyword
\* test, then the acknowledgment or the help reply.  "skill" in None
\* raises TypeError.
OnMessageActivity(c) ==
    /\ pc[c] = "on_message_activity"
    /\ LET text == activity[c].text
       IN  IF text = None
           THEN /\ pc' = [pc EXCEPT ![c] = "failed"]
                /\ err' = [err EXCEPT ![c] = Some("TypeError")]
                /\ log' = log
           ELSE /\ log' = Called(c)
                /\ pc' = [pc EXCEPT ![c] =
                        IF KeywordMatch(text[1]) THEN "msg_set" ELSE "done"]
                /\ err' = err
    /\ UNCHANGED <<store, cache, activity, target, idx, summary, pre, eocPrev, response, postBadPrev,
                   suspended, cleared, build>>

\* on_message_activity: self._active_skill_property.set(TARGET_SKILL_ID),
\* then the call of __send_to_skill with SKILLS[TARGET_SKILL_ID].
SetActiveSkill(c) ==
    /\ pc[c] = "msg_set"
    /\ cache' = [cache EXCEPT ![c] = Loaded(Some(TARGET_SKILL_ID))]
    /\ log' = Called(c)
    /\ IF TARGET_SKILL_ID \in DOMAIN SKILLS
       THEN /\ pc' = [pc EXCEPT ![c] = "send_save"]
            /\ target' = [target EXCEPT ![c] = SKILLS[TARGET_SKILL_ID]]
            /\ err' = err
       ELSE /\ pc' = [pc EXCEPT ![c] = "failed"]
            /\ err' = [err EXCEPT ![c] = KeyError(TARGET_SKILL_ID)]
            /\ target' = target
    /\ UNCHANGED <<store, activity, idx, summary, pre, eocPrev, response, postBadPrev,
                   suspended, cleared, build>>

SendToSkillNoSave(c) ==
    /\ pc[c] = "send_save"
    /\ pc' = [pc EXCEPT ![c] = "send_post"]
    /\ UNCHANGED <<store, log, cache, activity, target, idx, summary, err, pre,
                   eocPrev, response, postBadPrev,
                   suspended, cleared, build>>

\* __send_to_skill: save_changes(turn_context, force=True).
SendToSkillSave(c) ==
    /\ pc[c] = "send_save"
    /\ store' = [store EXCEPT ![c] = Saved(c)]
    /\ log' = Called(c)
    /\ pc' = [pc EXCEPT ![c] = "send_post"]
    /\ UNCHANGED <<cache, activity, target, idx, summary, err, pre, eocPrev, response, postBadPrev,
                   suspended, cleared, build>>

SendToSkillPostNoReturn(c) ==
    /\ pc[c] = "send_post"
    /\ log' = Called(c)
    /\ \E status \in Statuses : response' = [response EXCEPT ![c] = status]
    /\ pc' = [pc EXCEPT ![c] = IF pre[c] = None THEN "done" ELSE "dispatch"]
    /\ UNCHANGED <<store, cache, activity, target, idx, summary, err, pre,
                   eocPrev, postBadPrev,
                   suspended, cleared, build>>

SendToSkillPostChecked(c) ==
    /\ pc[c] = "send_post"
    /\ log' = Called(c)
    /\ \E status \in Statuses :
          /\ response' = [response EXCEPT ![c] = status]
          /\ store' = IF status = 200 THEN store
                      ELSE [store EXCEPT ![c] = None]
    /\ pc' = [pc EXCEPT ![c] = "done"]
    /\ UNCHANGED <<cache, activity, target, idx, summary, err, pre, eocPrev,
                   postBadPrev,
                   suspended, cleared, build>>

\* __send_to_skill: post_activity(bot id, target skill, host endpoint,
\* activity); the response it returns, of whatever status, is not looked
\* at.  After it on_turn returns, and on_message_activity ends.
SendToSkillPost(c) ==
    /\ pc[c] = "send_post"
    /\ log' = Called(c)
    /\ \E status \in Statuses : response' = [response EXCEPT ![c] = status]
    /\ pc' = [pc EXCEPT ![c] = "done"]
    /\ UNCHANGED <<store, cache, activity, target, idx, summary, err, pre,
                   eocPrev, postBadPrev,
                   suspended, cleared, build>>

EocDeleteSaved(c) ==
    /\ pc[c] = "on_end_of_conversation_activity"
    /\ IF DeleteRaises(c)
       THEN /\ cache' = [cache EXCEPT ![c] = Load(c)]
            /\ log' = [log EXCEPT ![c] = Append(@, [Call(c) EXCEPT !.ok = FALSE])]
            /\ pc' = [pc EXCEPT ![c] = "failed"]
            /\ err' = [err EXCEPT ![c] = KeyError(ACTIVE_SKILL_PROPERTY_NAME)]
            /\ UNCHANGED <<store, summary>>
       ELSE /\ cache' = [cache EXCEPT ![c] = Deleted(c)]
            /\ store' = [store EXCEPT ![c] = None]
            /\ summary' = [summary EXCEPT ![c] = EocMessage(activity[c])]
            /\ log' = Called(c)
            /\ pc' = [pc EXCEPT ![c] = "eoc_summary"]
            /\ err' = err
    /\ UNCHANGED <<activity, target, idx, pre, eocPrev, response, postBadPrev,
                   suspended, cleared, build>>

\* on_end_of_conversation_activity: self._active_skill_property.delete,
\* which raises KeyError when no active skill is recorded (nothing in
\* root_bot.py catches it); then the composition of eoc_activity_message.
EocDelete(c) ==
    /\ pc[c] = "on_end_of_conversation_activity"
    /\ IF DeleteRaises(c)
       THEN /\ cache' = [cache EXCEPT ![c] = Load(c)]
            /\ log' = [log EXCEPT ![c] = Append(@, [Call(c) EXCEPT !.ok = FALSE])]
            /\ pc' = [pc EXCEPT ![c] = "failed"]
            /\ err' = [err EXCEPT ![c] = KeyError(ACTIVE_SKILL_PROPERTY_NAME)]
            /\ summary' = summary
       ELSE /\ cache' = [cache EXCEPT ![c] = Deleted(c)]
            /\ summary' = [summary EXCEPT ![c] = EocMessage(activity[c])]
            /\ log' = Called(c)
            /\ pc' = [pc EXCEPT ![c] = "eoc_summary"]
            /\ err' = err
    /\ UNCHANGED <<store, activity, target, idx, pre, eocPrev, response,
                   postBadPrev,
                   suspended, cleared, build>>

\* on_end_of_conversation_activity: send_activity(eoc_activity_message).
EocSummary(c) ==
    /\ pc[c] = "eoc_summary"
    /\ log' = Called(c)
    /\ pc' = [pc EXCEPT ![c] = "eoc_back"]
    /\ UNCHANGED <<store, cache, activity, target, idx, summary, err, pre,
                   eocPrev, response, postBadPrev,
                   suspended, cleared, build>>

\* on_end_of_conversation_activity: the "Back in the root bot" reply.
EocBack(c) ==
    /\ pc[c] = "eoc_back"
    /\ log' = Called(c)
    /\ pc' = [pc EXCEPT ![c] = "eoc_save"]
    /\ UNCHANGED <<store, cache, activity, target, idx, summary, err, pre,
                   eocPrev, response, postBadPrev,
                   suspended, cleared, build>>

EocNoSave(c) ==
    /\ pc[c] = "eoc_save"
    /\ pc' = [pc EXCEPT ![c] = "done"]
    /\ UNCHANGED <<store, log, cache, activity, target, idx, summary, err, pre,
                   eocPrev, response, postBadPrev,
                   suspended, cleared, build>>

\* on_end_of_conversation_activity: save_changes(turn_context, force=True).
EocSave(c) ==
    /\ pc[c] = "eoc_save"
    /\ store' = [store EXCEPT ![c] = Saved(c)]
    /\ log' = Called(c)
    /\ pc' = [pc EXCEPT ![c] = "done"]
    /\ UNCHANGED <<cache, activity, target, idx, summary, err, pre, eocPrev, response, postBadPrev,
                   suspended, cleared, build>>

\* on_members_added_activity: one iteration of the loop over members_added.
OnMembersAdded(c) ==
    /\ pc[c] = "on_members_added_activity"
    /\ LET a == activity[c]
           member == a.members_added[idx[c]]
       IN  /\ log' = IF NotSelf(member, a) THEN Called(c) ELSE log
           /\ IF idx[c] < Len(a.members_added)
              THEN /\ idx' = [idx EXCEPT ![c] = @ + 1]
                   /\ pc' = pc
              ELSE /\ idx' = idx
                   /\ pc' = [pc EXCEPT ![c] = "done"]
    /\ UNCHANGED <<store, cache, activity, target, summary, err, pre,
                   eocPrev, response, postBadPrev,
                   suspended, cleared, build>>

RaiseRetried(c) ==
    /\ pc[c] \notin {"idle", "done", "failed"}
    /\ Awaits(c)
    /\ Len(log[c]) < 8
    /\ log' = [log EXCEPT ![c] = Append(@, [Call(c) EXCEPT !.ok = FALSE])]
    /\ UNCHANGED <<store, cache, pc, err, activity, target, idx, summary, pre,
                   eocPrev, response, postBadPrev,
                   suspended, cleared, build>>

\* The awaited call raises: no handler of root_bot.py catches, so the
\* exception leaves on_turn and the turn is over.
Raise(c) ==
    /\ pc[c] \notin {"idle", "done", "failed"}
    /\ Awaits(c)
    /\ log' = [log EXCEPT ![c] = Append(@, [Call(c) EXCEPT !.ok = FALSE])]
    /\ pc' = [pc EXCEPT ![c] = "failed"]
    /\ err' = [err EXCEPT ![c] = Some(Call(c).op)]
    /\ UNCHANGED <<store, cache, activity, target, idx, summary, pre,
                   eocPrev, response, postBadPrev,
                   suspended, cleared, build>>

Next ==
    \E c \in Conversations :
        \/ \E a \in Inbound(c) : BeginTurn(c, a)
        \/ \E a \in SkillInbound(c) : BeginSkillTurn(c, a)
        \/ ResumeTurn(c)
        \/ OnTurn(c)
        \/ Dispatch(c)
        \/ OnMessageActivity(c)
        \/ SetActiveSkill(c)
        \/ SendToSkillSave(c)
        \/ SendToSkillPost(c)
        \/ EocDelete(c)
        \/ EocSummary(c)
        \/ EocBack(c)
        \/ EocSave(c)
        \/ OnMembersAdded(c)
        \/ Raise(c)

Spec == Init /\ [][Next]_vars

TypeOK ==
    \A c \in Conversations :
        /\ store[c] \in {None, Some(TARGET_SKILL_ID)}
        /\ pc[c] \in {"idle", "on_turn", "dispatch", "on_message_activity",
                      "msg_set", "send_save", "send_post",
                      "on_end_of_conversation_activity", "eoc_summary",
                      "eoc_back", "eoc_save", "on_members_added_activity",
                      "done", "failed"}
        /\ activity[c] \in Activities \cup {NoActivity}
        /\ Len(suspended[c]) <= MaxDepth
        /\ cleared[c] \in BOOLEAN
        /\ build \in EnumFormats

\* ------------------------------------------------------------ properties

InTurn(c) == pc[c] # "idle"
Completed(c) == pc[c] = "done"

IsEoc(c) == activity[c].type = ActivityTypes.end_of_conversation

\* The entries of the turn's log that are calls of op.
Calls(c, op) == SelectSeq(log[c], LAMBDA e : e.op = op)

\* The replies the turn has sent.
Replies(c) == [k \in 1..Len(Calls(c, "send_activity")) |->
                    Calls(c, "send_activity")[k].text]

\* What the persisted property is when v is what the running turn began
\* with or saved last: v, unless on_turn, run for the activities of the
\* skill while the turn waited in post_activity, has cleared it.
Kept(c, v) == IF cleared[c] THEN None ELSE v

\* The step is the return to the turn that waited in post_activity.
Resumes(c) == Len(suspended'[c]) < Len(suspended[c])

IsPrefix(s, t) == Len(s) <= Len(t) /\ SubSeq(t, 1, Len(s)) = s

\* The text says "skill" somewhere, letter for letter.
HasKeyword(text) ==
    /\ text # None
    /\ \E k \in 1..(Len(text[1]) - 4) :
            /\ SubSeq(text[1], k, k) = "s"
            /\ SubSeq(text[1], k + 1, k + 1) = "k"
            /\ SubSeq(text[1], k + 2, k + 2) = "i"
            /\ SubSeq(text[1], k + 3, k + 4) = "ll"

\* What a turn forwarded to the skill with id sid calls, in order.
ForwardLog(c, sid) ==
    <<[op |-> "get", ok |-> TRUE],
      [op |-> "save_changes", force |-> TRUE, value |-> Some(sid), ok |-> TRUE],
      [op |-> "post_activity", from_bot_id |-> APP_ID,
       to_skill |-> SKILLS[sid], callback_url |-> SKILL_HOST_ENDPOINT,
       activity |-> activity[c], ok |-> TRUE]>>

\* C1: once the active skill is recorded for a conversation, every turn of
\* it whose activity is not an EndOfConversation, of whatever type, runs
\* only on_turn and __send_to_skill, and a turn that completes has posted
\* the inbound activity, as it came, to the skill with the recorded id;
\* the record stays, so the next such turn is forwarded too, until an
\* EndOfConversation is processed: one of the skill, processed while the
\* turn waits for the transport, clears the record at once.
C1_ForwardedWhileActive ==
    \A c \in Conversations :
        (InTurn(c) /\ pre[c] # None /\ ~IsEoc(c)) =>
            /\ pc[c] \in {"on_turn", "send_save", "send_post", "done", "failed"}
            /\ store[c] = Kept(c, pre[c])
            /\ Completed(c) => log[c] = ForwardLog(c, pre[c][1])

C1_Witness ==
    \E c \in Conversations :
        /\ Completed(c) /\ pre[c] = Some(TARGET_SKILL_ID)
        /\ activity[c].type = ActivityTypes.conversation_update
        /\ Len(Calls(c, "post_activity")) = 1
        /\ Calls(c, "post_activity")[1].activity = activity[c]
        /\ Calls(c, "post_activity")[1].to_skill.id = TARGET_SKILL_ID

\* C2: the active skill of a conversation, persisted or cached, goes from
\* unset to set only in a step of a turn that processes, while idle, a
\* message whose text contains the keyword; it is unset at the start, so
\* it is unset in every state before the first such turn.  (The return to
\* a turn that waited in post_activity sets nothing: that turn has its own
\* cache back.)
C2_SetOnlyByTrigger ==
    [][\A c \in Conversations :
          (/\ store[c] = None /\ cache[c].value = None
           /\ (store'[c] # None \/ cache'[c].value # None)
           /\ ~Resumes(c))
          => (/\ activity[c].type = ActivityTypes.message
              /\ HasKeyword(activity[c].text)
              /\ pre[c] = None
              /\ activity'[c] = activity[c])]_vars

C2_Witness ==
    \E c \in Conversations :
        /\ pre[c] = None /\ store[c] = Some(TARGET_SKILL_ID)
        /\ activity[c].type = ActivityTypes.message
        /\ HasKeyword(activity[c].text)

\* C3 as the spec has it: a completed EndOfConversation turn leaves the
\* active skill unset, persisted and cached, whatever it was before; a
\* second one right after it leaves the same state, and clearing what is
\* unset is no error: the turn of an EndOfConversation ends with an error
\* only when the state store or the reply sink fails.
C3_EocClears ==
    \A c \in Conversations :
        (InTurn(c) /\ IsEoc(c)) =>
            /\ Completed(c) =>
                  /\ store[c] = None
                  /\ cache[c] = Loaded(None)
                  /\ Len(Calls(c, "delete")) = 1
            /\ eocPrev[c] => (pre[c] = None /\ store[c] = pre[c])
            /\ err[c] # KeyError("activeSkillProperty")

\* C4: in every turn, a call of post_activity comes after a forced
\* save_changes of the same turn that succeeded, and every set or delete of
\* the turn comes before that save; when the transport is called the
\* persisted property is the turn's cached one, and it is still when the
\* call returns unless an EndOfConversation of the skill was processed
\* meanwhile.
C4_SaveBeforeTransport ==
    \A c \in Conversations :
        \A i \in 1..Len(log[c]) :
            log[c][i].op = "post_activity" =>
                /\ \E j \in 1..(i - 1) :
                      /\ log[c][j].op = "save_changes"
                      /\ log[c][j].force
                      /\ log[c][j].ok
                      /\ log[c][j].value = cache[c].value
                      /\ \A k \in 1..(i - 1) :
                            log[c][k].op \in {"set", "delete"} => k < j
                /\ cache[c].loaded
                /\ store[c] = Kept(c, cache[c].value)

C4_Witness ==
    \E c \in Conversations :
        /\ Completed(c)
        /\ Len(Calls(c, "set")) = 1
        /\ Len(Calls(c, "post_activity")) = 1

\* What the turn of a keyword message calls while idle, in order.
TriggerLog(c) ==
    <<[op |-> "get", ok |-> TRUE],
      [op |-> "send_activity",
       text |-> "Got it, connecting you to the skill...", ok |-> TRUE],
      [op |-> "set", value |-> Some("EchoSkillBot"), ok |-> TRUE],
      [op |-> "save_changes", force |-> TRUE, value |-> Some("EchoSkillBot"),
       ok |-> TRUE],
      [op |-> "post_activity", from_bot_id |-> APP_ID,
       to_skill |-> SKILLS["EchoSkillBot"],
       callback_url |-> SKILL_HOST_ENDPOINT,
       activity |-> activity[c], ok |-> TRUE]>>

\* C5: a turn that processes, while idle, a message whose text contains
\* "skill" calls, in this order, the acknowledgment reply, the set of the
\* active skill to "EchoSkillBot", the forced save and the transport with
\* the EchoSkillBot descriptor and the inbound activity; when it completes
\* it has made each call once, "EchoSkillBot" is what it saved, and it is
\* persisted still unless the skill has ended the conversation meanwhile.
C5_TriggerTurn ==
    \A c \in Conversations :
        (/\ InTurn(c) /\ pre[c] = None
         /\ activity[c].type = ActivityTypes.message
         /\ HasKeyword(activity[c].text)) =>
            /\ IsPrefix(SelectSeq(log[c], LAMBDA e : e.ok), TriggerLog(c))
            /\ Completed(c) =>
                  /\ log[c] = TriggerLog(c)
                  /\ store[c] = Kept(c, Some("EchoSkillBot"))

C5_Witness ==
    \E c \in Conversations :
        /\ Completed(c) /\ pre[c] = None
        /\ activity[c].text = Some("let's try the skill")
        /\ Replies(c) = <<"Got it, connecting you to the skill...">>
        /\ Len(Calls(c, "post_activity")) = 1

\* The turn has composed eoc_activity_message.
Composed(c) ==
    /\ IsEoc(c)
    /\ pc[c] \in {"eoc_summary", "eoc_back", "eoc_save", "done", "failed"}
    /\ Len(Calls(c, "delete")) = 1 /\ Calls(c, "delete")[1].ok

\* C6 as the spec has it: the summary has a "Code:" part exactly when the
\* activity has a code, a "Text:" part exactly when it has a text and a
\* "Value:" part exactly when it has a value.
C6_EachOnlyIfPresent ==
    \A c \in Conversations :
        Composed(c) =>
            /\ Contains("Code:", summary[c]) <=> activity[c].code # None
            /\ Contains("Text:", summary[c]) <=> activity[c].text # None
            /\ Contains("Value:", summary[c]) <=> activity[c].value # None

\* C6, amended: the summary always has its "Code:" part, which reads
\* "Code: None" for an activity without a code; it has a "Text:" part
\* exactly when the text is present and not empty, and a "Value:" part
\* exactly when the value is present and not empty; the summary is the
\* first reply of the turn.
C6_SummaryParts ==
    \A c \in Conversations :
        Composed(c) =>
            LET a == activity[c]
                hasText == a.text # None /\ a.text # Some("")
                hasValue == a.value # None /\ a.value # Some("")
            IN  /\ Contains("Code: " \o (IF a.code = None THEN "None"
                                         ELSE a.code[1]), summary[c])
                /\ Contains("Text:", summary[c]) <=> hasText
                /\ hasText => Contains("\n\nText: " \o a.text[1], summary[c])
                /\ Contains("Value:", summary[c]) <=> hasValue
                /\ hasValue => Contains("\n\nValue: " \o a.value[1], summary[c])
                /\ Replies(c) # <<>> => Replies(c)[1] = summary[c]

\* One turn has summarised an activity without a code, with an empty text
\* and a value, another one an activity with a code, a text and an empty
\* value.
C6_Witness ==
    \E c, d \in Conversations :
        /\ build = "name"
        /\ Composed(c) /\ Completed(c)
        /\ activity[c].code = None
        /\ activity[c].text = Some("")
        /\ activity[c].value = Some("42")
        /\ Replies(c)[1] =
              "Received ActivityTypes.end_of_conversation.\n\nCode: None\n\nValue: 42"
        /\ Composed(d) /\ Completed(d)
        /\ activity[d].code = Some("success")
        /\ activity[d].text = Some("done")
        /\ activity[d].value = Some("")
        /\ Replies(d)[1] =
              "Received ActivityTypes.end_of_conversation.\n\nCode: success\n\nText: done"

\* The added members, among the first n, whose id is not the recipient's.
RECURSIVE Others(_, _, _)
Others(members, recipient, n) ==
    IF n = 0 THEN 0
    ELSE Others(members, recipient, n - 1)
            + (IF members[n] = recipient THEN 0 ELSE 1)

\* C7: in a members-added turn handled while idle, the replies are all
\* "Hello and welcome!", and there is one for each member handled so far
\* whose id differs from the recipient's and none for the others: a
\* completed turn has sent as many as there are such members.
C7_WelcomeOthersOnly ==
    \A c \in Conversations :
        (/\ InTurn(c) /\ pre[c] = None
         /\ activity[c].type = ActivityTypes.conversation_update) =>
            LET a == activity[c]
                n == Len(a.members_added)
            IN  /\ \A k \in 1..Len(Replies(c)) : Replies(c)[k] = "Hello and welcome!"
                /\ pc[c] = "on_members_added_activity" =>
                      Len(Replies(c)) = Others(a.members_added, a.recipient, idx[c] - 1)
                /\ Completed(c) =>
                      Len(Replies(c)) = Others(a.members_added, a.recipient, n)
                /\ Len(Calls(c, "post_activity")) = 0

C7_Witness ==
    \E c \in Conversations :
        /\ Completed(c) /\ pre[c] = None
        /\ activity[c].type = ActivityTypes.conversation_update
        /\ \E i, j \in 1..Len(activity[c].members_added) :
              /\ activity[c].members_added[i] = activity[c].recipient
              /\ activity[c].members_added[j] # activity[c].recipient
        /\ Len(Replies(c)) = 1

\* C8 as the spec has it: a message handled while idle whose text does not
\* contain "skill", the text being possibly absent, gets the help reply,
\* leaves the active skill unset and calls no transport, and the handler
\* raises nothing: the turn fails only when an awaited call does.
C8_HelpReply ==
    \A c \in Conversations :
        (/\ InTurn(c) /\ pre[c] = None
         /\ activity[c].type = ActivityTypes.message
         /\ ~HasKeyword(activity[c].text)) =>
            /\ store[c] = None
            /\ Len(Calls(c, "post_activity")) = 0
            /\ Completed(c) =>
                  Replies(c) = <<"Me no nothin'. Say \"skill\" and I'll patch you through">>
            /\ pc[c] = "failed" =>
                  /\ log[c] # <<>>
                  /\ ~log[c][Len(log[c])].ok

\* C9: a call that raises is the last call of its turn and the turn ends
\* with that error (the delete of an unset property: with its KeyError): nothing is sent, set, deleted, saved or posted after
\* it, the persisted property is what the last successful save wrote (or
\* what the turn began with; unset once an EndOfConversation of the skill
\* was processed during the call), and the transport is called at most
\* once.
C9_FailurePropagates ==
    \A c \in Conversations :
        /\ \A i \in 1..Len(log[c]) :
              ~log[c][i].ok =>
                  /\ i = Len(log[c])
                  /\ pc[c] = "failed"
                  /\ \/ err[c] = Some(log[c][i].op)
                     \/ /\ log[c][i].op = "delete"
                        /\ err[c] = KeyError("activeSkillProperty")
        /\ Len(Calls(c, "post_activity")) <= 1
        /\ LET saves == SelectSeq(log[c], LAMBDA e : e.op = "save_changes" /\ e.ok)
           IN  InTurn(c) =>
                  store[c] = Kept(c, IF saves = <<>> THEN pre[c]
                                     ELSE saves[Len(saves)].value)

C9_Witness ==
    \E c \in Conversations :
        /\ pc[c] = "failed" /\ err[c] = Some("post_activity")
        /\ ~log[c][Len(log[c])].ok
        /\ Len(Calls(c, "set")) = 1
        /\ store[c] = Some(TARGET_SKILL_ID)

\* C10 as the spec has it: a turn forwarded to the active skill sends no
\* reply of the root bot, and the persisted active skill is the same after
\* the turn as before it.
C10_SameAfterTurn ==
    \A c \in Conversations :
        (InTurn(c) /\ pre[c] # None /\ ~IsEoc(c)) =>
            /\ Replies(c) = <<>>
            /\ pc[c] \in {"done", "failed"} => store[c] = pre[c]

\* C10, amended: a turn forwarded to the active skill sends no reply of
\* the root bot and neither sets nor deletes the active skill; the cached
\* property stays what it was when the turn began, and the persisted one
\* is after the turn what it was before it, or is unset when on_turn, run
\* for an EndOfConversation of the skill while the turn waited for the
\* transport, has cleared it.
C10_ForwardOnly ==
    \A c \in Conversations :
        (InTurn(c) /\ pre[c] # None /\ ~IsEoc(c)) =>
            /\ Replies(c) = <<>>
            /\ Len(Calls(c, "set")) = 0
            /\ Len(Calls(c, "delete")) = 0
            /\ store[c] = Kept(c, pre[c])
            /\ cache[c].loaded => cache[c].value = pre[c]

\* Two forwarded keyword messages have completed without a reply: after
\* one the persisted active skill is what it was, after the other the
\* skill's EndOfConversation has cleared it.
C10_Witness ==
    \E c, d \in Conversations :
        /\ \A e \in {c, d} :
              /\ Completed(e) /\ pre[e] = Some(TARGET_SKILL_ID)
              /\ activity[e].type = ActivityTypes.message
              /\ activity[e].text = Some("let's try the skill")
              /\ Len(Calls(e, "post_activity")) = 1
              /\ Replies(e) = <<>>
              /\ cache[e].value = pre[e]
        /\ ~cleared[d] /\ store[d] = pre[d]
        /\ cleared[c] /\ store[c] = None

\* The turn's activity is a message whose text contains the keyword.
IsTrigger(c) ==
    activity[c].type = ActivityTypes.message /\ HasKeyword(activity[c].text)

\* C11 as the spec has it: the persisted active skill moves only along Idle -> SkillActive (a
\* keyword message while idle), SkillActive -> SkillActive (any activity but
\* EndOfConversation) and SkillActive -> Idle (EndOfConversation).  While
\* idle, a turn of any other activity leaves the active skill unset,
\* persisted and cached, and calls no transport; an EndOfConversation while
\* idle raises nothing of its own and, completed, has only deleted, sent
\* its two replies and saved the unset property.
C11_StateMachine ==
    \A c \in Conversations :
        InTurn(c) =>
            /\ (pre[c] = None /\ ~IsTrigger(c)) =>
                  /\ store[c] = None
                  /\ cache[c].value = None
                  /\ Len(Calls(c, "post_activity")) = 0
                  /\ Len(Calls(c, "set")) = 0
            /\ (pre[c] = None /\ IsTrigger(c)) =>
                  store[c] \in {None, Some(TARGET_SKILL_ID)}
            /\ (pre[c] # None /\ ~IsEoc(c)) => store[c] = Kept(c, pre[c])
            /\ (pre[c] # None /\ IsEoc(c)) => store[c] \in {pre[c], None}
            /\ (pre[c] = None /\ IsEoc(c)) =>
                  /\ err[c] \in {None, Some("delete"), Some("send_activity"),
                                 Some("save_changes")}
                  /\ Completed(c) =>
                        /\ Replies(c) = <<summary[c], BACK_TEXT>>
                        /\ [k \in 1..Len(log[c]) |-> log[c][k].op] =
                              <<"delete", "send_activity", "send_activity",
                                "save_changes">>
                        /\ err[c] = None

\* What an EndOfConversation turn calls, in order.
EocLog(c) ==
    <<[op |-> "delete", ok |-> TRUE],
      [op |-> "send_activity", text |-> summary[c], ok |-> TRUE],
      [op |-> "send_activity",
       text |-> "Back in the root bot. Say \"skill\" and I'll patch you through",
       ok |-> TRUE],
      [op |-> "save_changes", force |-> TRUE, value |-> None, ok |-> TRUE]>>

\* C12: an EndOfConversation turn never calls the transport, active skill
\* or not; it deletes the active skill, sends the summary, sends the "Back
\* in the root bot" reply and does the forced save, in this order, the save
\* last; the persisted property changes only once both replies were sent,
\* so a reply that raises leaves the skill persisted as active.
C12_EocOrder ==
    \A c \in Conversations :
        (InTurn(c) /\ IsEoc(c)) =>
            /\ Len(Calls(c, "post_activity")) = 0
            /\ pc[c] \notin {"send_save", "send_post"}
            /\ IsPrefix(SelectSeq(log[c], LAMBDA e : e.ok), EocLog(c))
            /\ Completed(c) => log[c] = EocLog(c)
            /\ store[c] # pre[c] =>
                  /\ Len(SelectSeq(log[c], LAMBDA e :
                            e.op = "send_activity" /\ e.ok)) = 2
                  /\ store[c] = None
                  /\ Completed(c)

C12_Witness ==
    \E c \in Conversations :
        /\ IsEoc(c) /\ pre[c] = Some(TARGET_SKILL_ID)
        /\ pc[c] = "failed" /\ err[c] = Some("send_activity")
        /\ Len(Replies(c)) = 2
        /\ cache[c] = Loaded(None)
        /\ store[c] = Some(TARGET_SKILL_ID)

\* The step is one of the turn of conversation c.
StepOf(c) == pc'[c] # pc[c] \/ log'[c] # log[c] \/ idx'[c] # idx[c]

\* C13: with the turns of different conversations interleaved at the
\* awaited calls, a step of the turn of one conversation leaves the
\* persisted and the cached active skill, and the turn, of every other
\* conversation as they are; and where on_turn goes for a conversation is
\* decided by the activity's type and that conversation's own persisted
\* active skill: to __send_to_skill with its descriptor when it is set and
\* the activity is no EndOfConversation, to the handlers otherwise.
C13_Isolation ==
    [][/\ \A a, b \in Conversations :
            (a # b /\ StepOf(a)) =>
                /\ store'[b] = store[b]
                /\ cache'[b] = cache[b]
                /\ pc'[b] = pc[b]
                /\ log'[b] = log[b]
       /\ \A b \in Conversations :
            (pc[b] = "on_turn" /\ pc'[b] # "on_turn") =>
                /\ pc'[b] \in {"send_save", "dispatch", "failed"}
                /\ pc'[b] = "send_save" =>
                      /\ ~IsEoc(b)
                      /\ store[b] # None
                      /\ target'[b] = SKILLS[store[b][1]]
                /\ pc'[b] = "dispatch" => (IsEoc(b) \/ store[b] = None)]_vars

C13_Witness ==
    \E a, b \in Conversations :
        /\ a # b
        /\ pc[a] = "send_post" /\ pre[a] = Some(TARGET_SKILL_ID)
        /\ store[a] = Some(TARGET_SKILL_ID)
        /\ pc[b] = "on_message_activity" /\ store[b] = None
        /\ log[b] = <<[op |-> "get", ok |-> TRUE]>>

\* C14: the active skill of a conversation, persisted or cached, is always
\* either absent or "EchoSkillBot"; so the lookup SKILLS[active_skill_id] of
\* on_turn never misses (no KeyError), and a forwarded turn posts to the
\* descriptor the trigger turn posts to, the one configured for
\* "EchoSkillBot".
C14_OnlyTargetSkill ==
    \A c \in Conversations :
        /\ store[c] \in {None, Some("EchoSkillBot")}
        /\ cache[c].value \in {None, Some("EchoSkillBot")}
        /\ err[c] # KeyError("EchoSkillBot")
        /\ \A v \in {store[c], cache[c].value} :
              v # None => err[c] # KeyError(v[1])
        /\ pc[c] \in {"send_save", "send_post"} =>
              /\ target[c].id = "EchoSkillBot"
              /\ target[c] = SKILLS["EchoSkillBot"]
        /\ \A k \in 1..Len(Calls(c, "post_activity")) :
              Calls(c, "post_activity")[k].to_skill = SKILLS["EchoSkillBot"]

C14_Witness ==
    \E c \in Conversations :
        /\ pc[c] = "send_post" /\ pre[c] = Some("EchoSkillBot")
        /\ Len(Calls(c, "set")) = 0
        /\ target[c].id = "EchoSkillBot"

\* C15: what the transport call does has no effect on the active skill.
\* Once a turn has called post_activity, whether the call raised or
\* returned a success or an error response, the persisted property is the
\* active skill the turn saved before the call, unless on_turn has cleared
\* it for an EndOfConversation of the skill meanwhile; so the turn after a
\* transport call that went bad, with no such EndOfConversation, begins
\* with the skill persisted, and unless it is an EndOfConversation it is
\* forwarded again and not handled by the root bot; the persisted skill
\* goes back to unset in on_turn of an EndOfConversation only.
C15_TransportOutcomeIgnored ==
    \A c \in Conversations :
        /\ Len(Calls(c, "post_activity")) > 0 =>
              /\ store[c] = Kept(c, Some(TARGET_SKILL_ID))
              /\ cache[c].value = Some(TARGET_SKILL_ID)
        /\ (InTurn(c) /\ postBadPrev[c]) =>
              /\ pre[c] = Some(TARGET_SKILL_ID)
              /\ ~IsEoc(c) =>
                    /\ pc[c] \in {"on_turn", "send_save", "send_post", "done",
                                  "failed"}
                    /\ Replies(c) = <<>>
                    /\ Completed(c) => Len(Calls(c, "post_activity")) = 1
        /\ (InTurn(c) /\ pre[c] # None /\ store[c] = None) =>
              (IsEoc(c) \/ cleared[c])

C15_Witness ==
    \E c \in Conversations :
        /\ postBadPrev[c] /\ Completed(c)
        /\ activity[c].type = ActivityTypes.message
        /\ activity[c].text = Some("hi")
        /\ response[c] = 500
        /\ store[c] = Some(TARGET_SKILL_ID)

\* C16: a turn that completes has called the transport at most once, and
\* exactly once if and only if it began with the skill active and its
\* activity is no EndOfConversation, or began idle and its activity is a
\* message whose text contains "skill"; every other completed turn has
\* not called it.
C16_TransportOnceIff ==
    \A c \in Conversations :
        Completed(c) =>
            LET posts == Len(Calls(c, "post_activity"))
            IN  /\ posts <= 1
                /\ posts = 1 <=>
                      \/ pre[c] # None /\ ~IsEoc(c)
                      \/ pre[c] = None /\ IsTrigger(c)

C16_Witness ==
    \E a, b \in Conversations :
        /\ Completed(a) /\ pre[a] # None /\ IsEoc(a)
        /\ Len(Calls(a, "post_activity")) = 0
        /\ Completed(b) /\ pre[b] = None /\ IsTrigger(b)
        /\ Len(Calls(b, "post_activity")) = 1

\* C17: a skill session leaves nothing behind.  The turn after a completed
\* EndOfConversation turn begins with the active skill unset, as a new
\* conversation does, and when it completes it has made the calls, sent the
\* replies and left the persisted and cached property that the completed
\* turn of the same activity has in a conversation that began it idle (the
\* skill, for its part, ending the conversation during both or neither);
\* an EndOfConversation fails in both on the delete of the unset property; so
\* a keyword message starts a skill session again and any other message
\* gets the help reply.  The state a turn begins with being the persisted
\* property alone, every later turn agrees as well.
C17_NoResidue ==
    \A c, d \in Conversations :
        (InTurn(c) /\ eocPrev[c]) =>
            /\ pre[c] = None
            /\ ~postBadPrev[c]
            /\ (/\ InTurn(d) /\ pre[d] = None
                /\ activity[d] = activity[c]
                /\ cleared[d] = cleared[c]
                /\ Completed(c) /\ Completed(d)) =>
                  /\ log[c] = log[d]
                  /\ store[c] = store[d]
                  /\ cache[c] = cache[d]
            /\ (/\ InTurn(d) /\ pre[d] = None
                /\ activity[d] = activity[c]
                /\ err[c] = KeyError("activeSkillProperty")
                /\ err[d] = err[c]) =>
                  /\ log[c] = log[d]
                  /\ store[c] = store[d]
                  /\ cache[c] = cache[d]
            /\ (Completed(c) /\ IsTrigger(c)) =>
                  /\ store[c] = Kept(c, Some(TARGET_SKILL_ID))
                  /\ Replies(c) = <<ACK_TEXT>>
            /\ (/\ Completed(c) /\ ~IsTrigger(c)
                /\ activity[c].type = ActivityTypes.message) =>
                  /\ store[c] = None
                  /\ Replies(c) = <<HELP_TEXT>>

C17_Witness ==
    \E c, d \in Conversations :
        /\ c # d
        /\ eocPrev[c] /\ Completed(c) /\ IsTrigger(c)
        /\ pre[d] = None /\ ~eocPrev[d] /\ Completed(d)
        /\ activity[d] = activity[c]
        /\ log[c] = log[d]
        /\ store[c] = Some(TARGET_SKILL_ID)

====
